---- MODULE Spec2Model ----
(***************************************************************************)
(* A model of the dungeon crawler: the dungeon generator (NewDungeon and   *)
(* its passes), the player operations (Move, AttackEnemy, CheckPosition,   *)
(* CollectItem, UseItem, CheckLevelUp), the enemy pass (MoveEnemies) and   *)
(* the command loop of main with its three game states.                    *)
(*                                                                         *)
(* The random source: NewDungeon seeds the generator from the clock and    *)
(* the whole generation is then a function of that seed, so NewDungeon     *)
(* takes the seed as its input and reads the draws of the stream in order. *)
(* The draws made while playing (combat, traps, rest, wandering) are       *)
(* nondeterministic choices: every operation that draws returns the set of *)
(* its possible outcomes.                                                  *)
(***************************************************************************)
EXTENDS Integers, Sequences, FiniteSets, TLC

(***************************************************************************)
(* Bounds of the model.  main builds 80 x 24 dungeons; the model builds    *)
(* W x H ones, from NumSeeds seeds, and reads at most MaxTurns commands.   *)
(* A draw made while playing is one of the first MaxDraw values of its     *)
(* range or the last one.  The players SpecAPI starts from hold at most    *)
(* MaxInventory items, and the defenses a counterattack is computed for    *)
(* go up to MaxDefense.                                                    *)
(***************************************************************************)
W == 17
H == 14
NumSeeds == 3
MaxTurns == 3
MaxDraw == 1
MaxInventory == 2
MaxDefense == 4
GenSize == 14
MaxLevel == 2

Seeds == 1..NumSeeds

(***************************************************************************)
(* Tiles (the runes of the grid) and item types (iota).                    *)
(***************************************************************************)
Floor == "."
Wall == "#"
Door == "+"
Treasure == "$"
Trap == "^"
StairsDown == ">"

ItemGold == 0
ItemPotion == 1
ItemWeapon == 2
ItemArmor == 3
ItemTreasure == 4
ItemKey == 5

(***************************************************************************)
(* Game states of main.  StateExit is main having returned.                *)
(***************************************************************************)
StatePlaying == "Playing"
StateInventory == "Inventory"
StateGameOver == "GameOver"
StateExit == "Exit"

abs(x) == IF x < 0 THEN -x ELSE x

\* F applied to the value of e.  The loops of the code carry a dungeon from one
\* iteration to the next; Once has each iteration compute it one time.
Once(e, F(_)) == CHOOSE r \in {F(v) : v \in {e}} : TRUE

(***************************************************************************)
(* The seeded stream: Raw(seed, k) is the k-th value of the stream that    *)
(* rand.Seed(seed) starts, and SeededIntn(seed, k, n) is the k-th draw     *)
(* taken as rand.Intn(n).  The generator itself is the library's; all the  *)
(* model uses of it is that the stream is a function of the seed.          *)
(***************************************************************************)
Raw(seed, k) == (seed * 7919 + k * 104729 + k * k * 33 + seed * k * 230) % 65521

SeededIntn(seed, k, n) == (Raw(seed, k) \div 3) % n

(***************************************************************************)
(* rand.Intn(n) while playing: a value of 0..n-1, among those the model    *)
(* draws.                                                                  *)
(***************************************************************************)
Intn(n) == {r \in 0..(n - 1) : r < MaxDraw \/ r = n - 1}

(***************************************************************************)
(* Dungeon queries.                                                        *)
(***************************************************************************)
IsWalkable(d, x, y) ==
    IF x < 0 \/ y < 0 \/ x >= d.Width \/ y >= d.Height
    THEN FALSE
    ELSE d.Grid[y][x] \in {Floor, Door, Treasure, Trap, StairsDown}

GetTileAt(d, x, y) ==
    IF x < 0 \/ y < 0 \/ x >= d.Width \/ y >= d.Height
    THEN Wall
    ELSE d.Grid[y][x]

\* Index in d.Enemies of the first living enemy at (x, y), 0 for nil.
GetEnemyAt(d, x, y) ==
    LET hits == {i \in 1..Len(d.Enemies) :
                    /\ d.Enemies[i].X = x
                    /\ d.Enemies[i].Y = y
                    /\ d.Enemies[i].Health > 0}
    IN IF hits = {} THEN 0 ELSE CHOOSE i \in hits : \A j \in hits : i <= j

\* Index in d.Items of the first uncollected item at (x, y), 0 for nil.
GetItemAt(d, x, y) ==
    LET hits == {i \in 1..Len(d.Items) :
                    /\ d.Items[i].X = x
                    /\ d.Items[i].Y = y
                    /\ ~d.Items[i].Collected}
    IN IF hits = {} THEN 0 ELSE CHOOSE i \in hits : \A j \in hits : i <= j

(***************************************************************************)
(* Room generation.                                                        *)
(***************************************************************************)
minSize == 4
maxSize == 10

(* The overlap test without the one-tile margin around the first room.     *)
roomsOverlapUnpadded(r1, r2) ==
    /\ r1.X <= r2.X + r2.Width
    /\ r1.X + r1.Width >= r2.X
    /\ r1.Y <= r2.Y + r2.Height
    /\ r1.Y + r1.Height >= r2.Y

roomsOverlap(r1, r2) ==
    /\ r1.X - 1 <= r2.X + r2.Width
    /\ r1.X + r1.Width + 1 >= r2.X
    /\ r1.Y - 1 <= r2.Y + r2.Height
    /\ r1.Y + r1.Height + 1 >= r2.Y

carveRoomAt(d, room) ==
    [d EXCEPT !.Grid =
        [y \in 0..(d.Height - 1) |->
            [x \in 0..(d.Width - 1) |->
                IF /\ room.Y <= y /\ y < room.Y + room.Height
                   /\ room.X <= x /\ x < room.X + room.Width
                THEN Floor
                ELSE d.Grid[y][x]]]]

carveRoom(d, room) == Once(<<d, room>>, LAMBDA a : carveRoomAt(a[1], a[2]))

\* One attempt of the placement loop with its room drawn: the room is kept
\* unless it overlaps a room placed before.
placeRoom(d, newRoom) ==
    IF \E j \in 1..Len(d.Rooms) : roomsOverlap(newRoom, d.Rooms[j])
    THEN d
    ELSE [carveRoom(d, newRoom) EXCEPT !.Rooms = Append(d.Rooms, newRoom)]

\* After the loop: a default room when none was placed.
defaultRoom(d) ==
    IF Len(d.Rooms) = 0
    THEN LET room == [X |-> d.Width \div 4, Y |-> d.Height \div 4,
                      Width |-> d.Width \div 2, Height |-> d.Height \div 2]
         IN [carveRoom(d, room) EXCEPT !.Rooms = Append(d.Rooms, room)]
    ELSE d

\* The placement loop: attempt i of numRooms, reading four draws from k on.
RECURSIVE generateRoomsLoop(_, _, _, _, _)
generateRoomsLoop(d0, seed, k, i, numRooms) ==
    IF i >= numRooms
    THEN d0
    ELSE Once(d0, LAMBDA d :
         LET width == minSize + SeededIntn(seed, k, maxSize - minSize + 1)
             height == minSize + SeededIntn(seed, k + 1, maxSize - minSize + 1)
             x == 1 + SeededIntn(seed, k + 2, d.Width - width - 2)
             y == 1 + SeededIntn(seed, k + 3, d.Height - height - 2)
             newRoom == [X |-> x, Y |-> y, Width |-> width, Height |-> height]
         IN generateRoomsLoop(placeRoom(d, newRoom), seed, k + 4, i + 1, numRooms))

\* Returns the dungeon and the index of the next draw.
generateRooms(d, seed, k, minRooms, maxRooms) ==
    LET numRooms == minRooms + SeededIntn(seed, k, maxRooms - minRooms + 1)
    IN Once(generateRoomsLoop(d, seed, k + 1, 0, numRooms), LAMBDA placed :
           [d |-> defaultRoom(placed), k |-> k + 1 + 4 * numRooms])

(***************************************************************************)
(* Corridors.                                                              *)
(***************************************************************************)
createHorizontalCorridor(d0, xa, xb, y) ==
    LET x1 == IF xa > xb THEN xb ELSE xa
        x2 == IF xa > xb THEN xa ELSE xb
    IN Once(d0, LAMBDA d :
         [d EXCEPT !.Grid =
           [yy \in 0..(d.Height - 1) |->
               [x \in 0..(d.Width - 1) |->
                   IF yy = y /\ x1 <= x /\ x <= x2 THEN Floor ELSE d.Grid[yy][x]]]])

createVerticalCorridor(d0, ya, yb, x) ==
    LET y1 == IF ya > yb THEN yb ELSE ya
        y2 == IF ya > yb THEN ya ELSE yb
    IN Once(d0, LAMBDA d :
         [d EXCEPT !.Grid =
           [y \in 0..(d.Height - 1) |->
               [xx \in 0..(d.Width - 1) |->
                   IF xx = x /\ y1 <= y /\ y <= y2 THEN Floor ELSE d.Grid[y][xx]]]])

(* A connection that carves the horizontal run only.                       *)
connectPairHorizontalOnly(d, i, r) ==
    LET x1 == d.Rooms[i].X + d.Rooms[i].Width \div 2
        y1 == d.Rooms[i].Y + d.Rooms[i].Height \div 2
        x2 == d.Rooms[i + 1].X + d.Rooms[i + 1].Width \div 2
        y2 == d.Rooms[i + 1].Y + d.Rooms[i + 1].Height \div 2
    IN IF r = 0
       THEN createHorizontalCorridor(d, x1, x2, y1)
       ELSE createHorizontalCorridor(d, x1, x2, y2)

\* One iteration of the loop of connectRooms: room i to room i + 1 (counted
\* from 1), r being the draw rand.Intn(2).
connectPair(d, i, r) ==
    LET x1 == d.Rooms[i].X + d.Rooms[i].Width \div 2
        y1 == d.Rooms[i].Y + d.Rooms[i].Height \div 2
        x2 == d.Rooms[i + 1].X + d.Rooms[i + 1].Width \div 2
        y2 == d.Rooms[i + 1].Y + d.Rooms[i + 1].Height \div 2
    IN IF r = 0
       THEN createVerticalCorridor(
                createHorizontalCorridor(d, x1, x2, y1), y1, y2, x2)
       ELSE createHorizontalCorridor(
                createVerticalCorridor(d, y1, y2, x1), x1, x2, y2)

RECURSIVE connectRoomsLoop(_, _, _, _)
connectRoomsLoop(d0, seed, k, i) ==
    Once(d0, LAMBDA d :
    IF i >= Len(d.Rooms)
    THEN d
    ELSE connectRoomsLoop(connectPair(d, i, SeededIntn(seed, k, 2)),
                          seed, k + 1, i + 1))

connectRooms(d0, seed, k) ==
    Once(d0, LAMBDA d :
        IF Len(d.Rooms) <= 1
        THEN [d |-> d, k |-> k]
        ELSE [d |-> connectRoomsLoop(d, seed, k, 1), k |-> k + Len(d.Rooms) - 1])

(***************************************************************************)
(* Features: doors, treasures, traps and the stairs.  Each pass returns    *)
(* the dungeon and the index of the next draw of the stream.               *)
(***************************************************************************)
\* The scan of addDoors visits the interior cells row by row and draws once
\* for every candidate.  A cell turned into a Door was Floor and is still no
\* Wall, so which cells are candidates is decided by the grid before the scan,
\* and the j-th candidate of the scan reads the j-th draw.
DoorCandidate(d, x, y) ==
    /\ d.Grid[y][x] = Floor
    /\ \/ d.Grid[y - 1][x] = Wall /\ d.Grid[y + 1][x] = Wall
       \/ d.Grid[y][x - 1] = Wall /\ d.Grid[y][x + 1] = Wall

addDoorsFrom(d, seed, k) ==
    LET cands == {c \in (1..(d.Width - 2)) \X (1..(d.Height - 2)) :
                     DoorCandidate(d, c[1], c[2])}
        before(x, y) == Cardinality({c \in cands :
                            c[2] < y \/ (c[2] = y /\ c[1] < x)})
    IN [d |-> [d EXCEPT !.Grid =
                  [y \in 0..(d.Height - 1) |->
                      [x \in 0..(d.Width - 1) |->
                          IF /\ <<x, y>> \in cands
                             /\ SeededIntn(seed, k + before(x, y), 100) < 10
                          THEN Door
                          ELSE d.Grid[y][x]]]],
        k |-> k + Cardinality(cands)]

addDoors(d, seed, k) == Once(<<d, k>>, LAMBDA a : addDoorsFrom(a[1], seed, a[2]))

RECURSIVE addTreasuresLoop(_, _, _, _)
addTreasuresLoop(d0, seed, k0, i) ==
    Once(<<d0, k0>>, LAMBDA a : LET d == a[1] k == a[2] IN
    IF i > Len(d.Rooms)
    THEN [d |-> d, k |-> k]
    ELSE IF SeededIntn(seed, k, 100) < 40
         THEN LET room == d.Rooms[i]
                  treasureX == room.X + SeededIntn(seed, k + 1, room.Width)
                  treasureY == room.Y + SeededIntn(seed, k + 2, room.Height)
                  item == [X |-> treasureX, Y |-> treasureY, Type |-> ItemTreasure,
                           Name |-> "Gold",
                           Value |-> 10 + SeededIntn(seed, k + 3, 90),
                           Collected |-> FALSE]
              IN addTreasuresLoop(
                     [d EXCEPT !.Grid[treasureY][treasureX] = Treasure,
                               !.Items = Append(d.Items, item)],
                     seed, k + 4, i + 1)
         ELSE addTreasuresLoop(d, seed, k + 1, i + 1))

addTreasures(d, seed, k) == addTreasuresLoop(d, seed, k, 1)

\* The attempts to place one trap: at most 50, two draws each; the first
\* attempt that lands on a Floor tile places the trap and ends the attempts.
addTrapAttemptsFrom(d, seed, k) ==
    LET tx(a) == 1 + SeededIntn(seed, k + 2 * a, d.Width - 2)
        ty(a) == 1 + SeededIntn(seed, k + 2 * a + 1, d.Height - 2)
        ok == {a \in 0..49 : d.Grid[ty(a)][tx(a)] = Floor}
        first == CHOOSE a \in ok : \A b \in ok : a <= b
    IN IF ok = {}
       THEN [d |-> d, k |-> k + 100]
       ELSE [d |-> [d EXCEPT !.Grid[ty(first)][tx(first)] = Trap],
             k |-> k + 2 * (first + 1)]

addTrapAttempts(d, seed, k) ==
    Once(<<d, k>>, LAMBDA a : addTrapAttemptsFrom(a[1], seed, a[2]))

RECURSIVE addTrapsLoop(_, _, _, _, _)
addTrapsLoop(d, seed, k, i, numTraps) ==
    IF i >= numTraps
    THEN [d |-> d, k |-> k]
    ELSE Once(addTrapAttempts(d, seed, k), LAMBDA r :
             addTrapsLoop(r.d, seed, r.k, i + 1, numTraps))

addTraps(d, seed, k0) ==
    Once(k0, LAMBDA k : addTrapsLoop(d, seed, k + 1, 0, 2 + SeededIntn(seed, k, 4)))

(* Stairs placed at the center of the first room instead of the last.      *)
addStairsFirstRoom(d) ==
    LET firstRoom == d.Rooms[1]
        stairsX == firstRoom.X + firstRoom.Width \div 2
        stairsY == firstRoom.Y + firstRoom.Height \div 2
    IN IF Len(d.Rooms) > 0
       THEN [d EXCEPT !.Grid[stairsY][stairsX] = StairsDown]
       ELSE d

\* The stairs, at the center of the last room.
addStairs(d) ==
    LET lastRoom == d.Rooms[Len(d.Rooms)]
        stairsX == lastRoom.X + lastRoom.Width \div 2
        stairsY == lastRoom.Y + lastRoom.Height \div 2
    IN IF Len(d.Rooms) > 0
       THEN [d EXCEPT !.Grid[stairsY][stairsX] = StairsDown]
       ELSE d

addFeatures(d, seed, k) ==
    Once(addDoors(d, seed, k), LAMBDA a :
    Once(addTreasures(a.d, seed, a.k), LAMBDA b :
    Once(addTraps(b.d, seed, b.k), LAMBDA c :
        [d |-> addStairs(c.d), k |-> c.k])))

(***************************************************************************)
(* Enemies.  An enemy is shared by pointer in the code; id stands for the  *)
(* pointer: two enemies of one dungeon never have the same id.             *)
(***************************************************************************)
enemyTypes ==
    << [name |-> "Goblin", health |-> 3, damage |-> 1],
       [name |-> "Orc", health |-> 5, damage |-> 2],
       [name |-> "Troll", health |-> 8, damage |-> 3],
       [name |-> "Rat", health |-> 1, damage |-> 1],
       [name |-> "Skeleton", health |-> 4, damage |-> 2] >>

\* The enemy types of spawnEnemyNearPlayer.
nearEnemyTypes ==
    << [name |-> "Goblin", health |-> 3, damage |-> 1],
       [name |-> "Rat", health |-> 1, damage |-> 1] >>

\* A fresh allocation: an id no enemy of the dungeon has.
NewEnemyId(d) ==
    CHOOSE n \in 1..(Len(d.Enemies) + 1) :
        /\ \A i \in 1..Len(d.Enemies) : d.Enemies[i].id # n
        /\ \A m \in 1..(n - 1) : \E i \in 1..Len(d.Enemies) : d.Enemies[i].id = m

NewEnemy(d, x, y, enemyType) ==
    [id |-> NewEnemyId(d), X |-> x, Y |-> y, Health |-> enemyType.health,
     Name |-> enemyType.name, Damage |-> enemyType.damage, Hostile |-> TRUE]

(* A spawn loop that places the enemy past the room's far corner.          *)
RECURSIVE spawnEnemiesLoopPastRoom(_, _, _, _, _)
spawnEnemiesLoopPastRoom(d0, seed, k, i, numEnemies) ==
    Once(d0, LAMBDA d :
    IF i >= numEnemies \/ Len(d.Rooms) <= 1
    THEN d
    ELSE LET roomIndex == 1 + SeededIntn(seed, k, Len(d.Rooms) - 1)
             room == d.Rooms[roomIndex + 1]
             x == room.X + room.Width + SeededIntn(seed, k + 1, room.Width)
             y == room.Y + room.Height + SeededIntn(seed, k + 2, room.Height)
             enemyType == enemyTypes[1 + SeededIntn(seed, k + 3, Len(enemyTypes))]
         IN spawnEnemiesLoopPastRoom(
                [d EXCEPT !.Enemies = Append(d.Enemies, NewEnemy(d, x, y, enemyType))],
                seed, k + 4, i + 1, numEnemies))

\* The end of one iteration of the loop of spawnEnemies: the enemy of the
\* drawn type is created at the drawn position and appended.
spawnEnemyAt(d, x, y, t) ==
    [d EXCEPT !.Enemies = Append(d.Enemies, NewEnemy(d, x, y, enemyTypes[1 + t]))]

RECURSIVE spawnEnemiesLoop(_, _, _, _, _)
spawnEnemiesLoop(d0, seed, k, i, numEnemies) ==
    Once(d0, LAMBDA d :
    IF i >= numEnemies \/ Len(d.Rooms) <= 1
    THEN d
    ELSE LET roomIndex == 1 + SeededIntn(seed, k, Len(d.Rooms) - 1)
             room == d.Rooms[roomIndex + 1]
         IN spawnEnemiesLoop(
                spawnEnemyAt(d, room.X + SeededIntn(seed, k + 1, room.Width),
                             room.Y + SeededIntn(seed, k + 2, room.Height),
                             SeededIntn(seed, k + 3, Len(enemyTypes))),
                seed, k + 4, i + 1, numEnemies))

spawnEnemies(d, seed, k0, min, max) ==
    Once(k0, LAMBDA k :
        spawnEnemiesLoop(d, seed, k + 1, 0, min + SeededIntn(seed, k, max - min + 1)))

(***************************************************************************)
(* NewDungeon(w, h), with the seed the clock gives it.                     *)
(***************************************************************************)
\* The dungeon before generation: every cell a wall.
WalledDungeon(w, h) ==
    [Width |-> w, Height |-> h, Level |-> 1,
     Grid |-> [y \in 0..(h - 1) |-> [x \in 0..(w - 1) |-> Wall]],
     Rooms |-> << >>, Enemies |-> << >>, Items |-> << >>]

NewDungeon(w, h, seed) ==
    LET d0 == WalledDungeon(w, h)
    IN Once(generateRooms(d0, seed, 1, 4, 8), LAMBDA a :
       Once(connectRooms(a.d, seed, a.k), LAMBDA b :
       Once(addFeatures(b.d, seed, b.k), LAMBDA c :
           spawnEnemies(c.d, seed, c.k, 3, 6))))

\* The dungeons NewDungeon(W, H) builds, by seed.
Dungeons == [seed \in Seeds |-> NewDungeon(W, H, seed)]

(***************************************************************************)
(* The item constructors.                                                  *)
(***************************************************************************)
NewHealthPotion(x, y) ==
    [X |-> x, Y |-> y, Type |-> ItemPotion, Name |-> "Health Potion",
     Value |-> 10, Collected |-> FALSE]

NewWeapon(x, y, name, damage) ==
    [X |-> x, Y |-> y, Type |-> ItemWeapon, Name |-> name, Value |-> damage,
     Collected |-> FALSE]

NewArmor(x, y, name, defense) ==
    [X |-> x, Y |-> y, Type |-> ItemArmor, Name |-> name, Value |-> defense,
     Collected |-> FALSE]

(***************************************************************************)
(* The player.  Every operation that prints returns, with its result, the  *)
(* set out of the lines it printed (named by a short tag).                 *)
(***************************************************************************)
NewPlayer(x, y) ==
    [X |-> x, Y |-> y, Health |-> 20, MaxHealth |-> 20, Attack |-> 3,
     Defense |-> 1, Gold |-> 0, Level |-> 1, Exp |-> 0, Inventory |-> << >>]

\* A variant of CheckLevelUp whose threshold is 100 at every level.
RECURSIVE CheckLevelUpFlat(_)
CheckLevelUpFlat(p) ==
    IF p.Exp >= 100
    THEN CheckLevelUpFlat([p EXCEPT !.Level = p.Level + 1,
                                    !.Exp = p.Exp - 100,
                                    !.MaxHealth = p.MaxHealth + 5,
                                    !.Health = p.MaxHealth + 5,
                                    !.Attack = p.Attack + 1])
    ELSE p

(* A level-up check that gains one level at most.                          *)
CheckLevelUpOnce(p) ==
    LET expNeeded == 100 * p.Level
    IN IF p.Exp >= expNeeded
       THEN [p EXCEPT !.Level = p.Level + 1,
                      !.Exp = p.Exp - expNeeded,
                      !.MaxHealth = p.MaxHealth + 5,
                      !.Health = p.MaxHealth + 5,
                      !.Attack = p.Attack + 1]
       ELSE p

RECURSIVE CheckLevelUp(_)
CheckLevelUp(p) ==
    LET expNeeded == 100 * p.Level
    IN IF p.Exp >= expNeeded
       THEN CheckLevelUp([p EXCEPT !.Level = p.Level + 1,
                                   !.Exp = p.Exp - expNeeded,
                                   !.MaxHealth = p.MaxHealth + 5,
                                   !.Health = p.MaxHealth + 5,
                                   !.Attack = p.Attack + 1])
       ELSE p

\* A variant of RemoveEnemy that leaves the dead enemy in the collection.
RemoveEnemyNone(d, id) == d

(* A removal that compares the enemies' fields instead of the pointers:    *)
(* the first enemy with the dead one's name and damage goes.               *)
RemoveEnemyByFields(d, id) ==
    LET dead == {i \in 1..Len(d.Enemies) : d.Enemies[i].id = id}
        hits == {i \in 1..Len(d.Enemies) :
                    \E j \in dead : /\ d.Enemies[i].Name = d.Enemies[j].Name
                                    /\ d.Enemies[i].Damage = d.Enemies[j].Damage}
        i == CHOOSE j \in hits : \A m \in hits : j <= m
    IN IF hits = {}
       THEN d
       ELSE [d EXCEPT !.Enemies =
                SubSeq(d.Enemies, 1, i - 1) \o SubSeq(d.Enemies, i + 1, Len(d.Enemies))]

\* Removes the enemy that is the given pointer: the first entry with its id.
RemoveEnemy(d, id) ==
    LET hits == {i \in 1..Len(d.Enemies) : d.Enemies[i].id = id}
        i == CHOOSE j \in hits : \A m \in hits : j <= m
    IN IF hits = {}
       THEN d
       ELSE [d EXCEPT !.Enemies =
                SubSeq(d.Enemies, 1, i - 1) \o SubSeq(d.Enemies, i + 1, Len(d.Enemies))]

\* A variant of CounterDamage without the minimum of 1.
CounterDamageUnfloored(enemy, p) == enemy.Damage - p.Defense

\* The counterattack of an enemy that survived.
CounterDamage(enemy, p) ==
    IF enemy.Damage - p.Defense < 1 THEN 1 ELSE enemy.Damage - p.Defense

\* AttackEnemy on the enemy at index ei of d.Enemies: the set of outcomes.
AttackEnemy(p, d, ei) ==
    LET damage == p.Attack
        hit == [d EXCEPT !.Enemies[ei].Health = @ - damage]
        enemy == hit.Enemies[ei]
    IN IF enemy.Health <= 0
       THEN LET expGain == 5 + enemy.Damage * 2
                p1 == CheckLevelUp([p EXCEPT !.Exp = p.Exp + expGain])
                d1 == RemoveEnemy(hit, enemy.id)
                said == {"attack", "defeated"}
                        \cup (IF p1.Level > p.Level THEN {"levelup"} ELSE {})
            IN {[p |-> p1, d |-> d1, out |-> said] : c \in Intn(2) \ {0}}
               \cup {[p |-> [p1 EXCEPT !.Gold = p1.Gold + 1 + g], d |-> d1,
                      out |-> said \cup {"foundgold"}] :
                        c \in Intn(2) \cap {0}, g \in Intn(10)}
       ELSE LET p1 == [p EXCEPT !.Health = p.Health - CounterDamage(enemy, p)]
            IN {[p |-> p1, d |-> hit,
                 out |-> {"attack", "counter"}
                         \cup (IF p1.Health <= 0 THEN {"beaten"} ELSE {})]}

\* CollectItem on the item at index ii of d.Items.
CollectItem(p, d, ii) ==
    LET item == [d.Items[ii] EXCEPT !.Collected = TRUE]
        d1 == [d EXCEPT !.Items[ii] = item]
    IN CASE item.Type = ItemGold ->
              [p |-> [p EXCEPT !.Gold = p.Gold + item.Value], d |-> d1,
               out |-> {"collectgold"}]
         [] item.Type \in {ItemPotion, ItemWeapon, ItemArmor} ->
              [p |-> [p EXCEPT !.Inventory = Append(p.Inventory, item)], d |-> d1,
               out |-> {"pickup"}]
         [] OTHER -> [p |-> p, d |-> d1, out |-> {}]

\* A variant of TrapDamage that counts from 1.
TrapDamageFromOne(t) == 1 + t

\* The damage of a trap, t being the draw rand.Intn(3).
TrapDamage(t) == 2 + t

\* CheckPosition: the tile under the player, then the item there.
CheckPosition(p, d) ==
    LET tile == GetTileAt(d, p.X, p.Y)
        floored == [d EXCEPT !.Grid[p.Y][p.X] = Floor]
        tiled ==
            CASE tile = Treasure ->
                   {[p |-> [p EXCEPT !.Gold = p.Gold + 10 + g], d |-> floored,
                     out |-> {"treasure"}] : g \in Intn(20)}
              [] tile = Trap ->
                   {[p |-> [p EXCEPT !.Health = p.Health - TrapDamage(t)], d |-> floored,
                     out |-> {"trap"} \cup (IF p.Health - TrapDamage(t) <= 0
                                            THEN {"trapdeath"} ELSE {})] : t \in Intn(3)}
              [] tile = Door -> {[p |-> p, d |-> floored, out |-> {"door"}]}
              [] tile = StairsDown -> {[p |-> p, d |-> d, out |-> {"stairs"}]}
              [] OTHER -> {[p |-> p, d |-> d, out |-> {}]}
        collect(r) ==
            LET ii == GetItemAt(r.d, r.p.X, r.p.Y)
                c == CollectItem(r.p, r.d, ii)
            IN IF ii = 0 THEN r ELSE [c EXCEPT !.out = r.out \cup c.out]
    IN {collect(r) : r \in tiled}

(* A Move that steps onto the tile of an enemy it has just killed.         *)
MoveOntoKilled(p, d, dx, dy) ==
    LET newX == p.X + dx
        newY == p.Y + dy
        ei == GetEnemyAt(d, newX, newY)
    IN IF ei # 0
       THEN {IF "defeated" \in r.out
             THEN [r EXCEPT !.p.X = newX, !.p.Y = newY]
             ELSE r : r \in AttackEnemy(p, d, ei)}
       ELSE IF IsWalkable(d, newX, newY)
            THEN CheckPosition([p EXCEPT !.X = newX, !.Y = newY], d)
            ELSE {[p |-> p, d |-> d, out |-> {"cantmove"}]}

\* Move(dx, dy): the set of outcomes.
Move(p, d, dx, dy) ==
    LET newX == p.X + dx
        newY == p.Y + dy
        ei == GetEnemyAt(d, newX, newY)
    IN IF ei # 0
       THEN AttackEnemy(p, d, ei)
       ELSE IF IsWalkable(d, newX, newY)
            THEN CheckPosition([p EXCEPT !.X = newX, !.Y = newY], d)
            ELSE {[p |-> p, d |-> d, out |-> {"cantmove"}]}

\* UseItem(itemIndex), itemIndex counted from 0 as in the code.
UseItem(p, itemIndex) ==
    IF itemIndex < 0 \/ itemIndex >= Len(p.Inventory)
    THEN [p |-> p, out |-> {"invalidindex"}]
    ELSE LET item == p.Inventory[itemIndex + 1]
         IN CASE item.Type = ItemPotion ->
                   [p |-> [p EXCEPT
                             !.Health = IF p.Health + item.Value > p.MaxHealth
                                        THEN p.MaxHealth
                                        ELSE p.Health + item.Value,
                             !.Inventory = SubSeq(p.Inventory, 1, itemIndex)
                                 \o SubSeq(p.Inventory, itemIndex + 2, Len(p.Inventory))],
                    out |-> {"drink"}]
              [] item.Type = ItemWeapon ->
                   [p |-> [p EXCEPT !.Attack = item.Value], out |-> {"equipweapon"}]
              [] item.Type = ItemArmor ->
                   [p |-> [p EXCEPT !.Defense = item.Value], out |-> {"equiparmor"}]
              [] OTHER -> [p |-> p, out |-> {}]

(***************************************************************************)
(* The enemy pass.                                                         *)
(***************************************************************************)
directions == << <<0, -1>>, <<1, 0>>, <<0, 1>>, <<-1, 0>> >>

\* The steps (dx, dy) the enemy may decide on.
EnemySteps(enemy, p) ==
    LET distX == p.X - enemy.X
        distY == p.Y - enemy.Y
        distance == abs(distX) + abs(distY)
    IN IF distance < 5 /\ enemy.Hostile
       THEN IF abs(distX) > abs(distY)
            THEN {<<IF distX > 0 THEN 1 ELSE -1, 0>>}
            ELSE {<<0, IF distY > 0 THEN 1 ELSE -1>>}
       ELSE {<<0, 0>> : m \in Intn(3) \ {1, 2}}
            \cup {directions[1 + r] : m \in Intn(3) \ {0}, r \in Intn(Len(directions))}

(* An iteration of the pass that does not look at the player's tile.       *)
MoveEnemyOntoPlayer(d, p, i, step) ==
    LET enemy == d.Enemies[i]
        newX == enemy.X + step[1]
        newY == enemy.Y + step[2]
    IN IF enemy.Health <= 0
       THEN d
       ELSE IF IsWalkable(d, newX, newY) /\ GetEnemyAt(d, newX, newY) = 0
            THEN [d EXCEPT !.Enemies[i].X = newX, !.Enemies[i].Y = newY]
            ELSE d

\* One iteration of the loop of MoveEnemies, for the enemy at index i.
MoveEnemy(d, p, i, step) ==
    LET enemy == d.Enemies[i]
        newX == enemy.X + step[1]
        newY == enemy.Y + step[2]
    IN IF enemy.Health <= 0
       THEN d
       ELSE IF newX = p.X /\ newY = p.Y
            THEN d
            ELSE IF IsWalkable(d, newX, newY) /\ GetEnemyAt(d, newX, newY) = 0
                 THEN [d EXCEPT !.Enemies[i].X = newX, !.Enemies[i].Y = newY]
                 ELSE d

RECURSIVE MoveEnemiesFrom(_, _, _)
MoveEnemiesFrom(d, p, i) ==
    IF i > Len(d.Enemies)
    THEN {d}
    ELSE UNION {MoveEnemiesFrom(d1, p, i + 1) :
                   d1 \in {MoveEnemy(d, p, i, step) :
                              step \in EnemySteps(d.Enemies[i], p)}}

\* MoveEnemies(player): the dungeons the pass may leave.
MoveEnemies(d, p) == Once(<<d, p>>, LAMBDA a : MoveEnemiesFrom(a[1], a[2], 1))

\* spawnEnemyNearPlayer: the first free walkable neighbour gets the enemy.
positions ==
    << <<-1, -1>>, <<0, -1>>, <<1, -1>>, <<-1, 0>>, <<1, 0>>,
       <<-1, 1>>, <<0, 1>>, <<1, 1>> >>

(* A spawn that takes the first neighbour whatever stands there.           *)
spawnEnemyNearPlayerUnchecked(p, d) ==
    {[d EXCEPT !.Enemies =
         Append(d.Enemies,
                NewEnemy(d, p.X + positions[1][1], p.Y + positions[1][2],
                         nearEnemyTypes[1 + r]))] :
        r \in Intn(Len(nearEnemyTypes))}

spawnEnemyNearPlayer(p, d) ==
    LET free == {j \in 1..Len(positions) :
                    /\ IsWalkable(d, p.X + positions[j][1], p.Y + positions[j][2])
                    /\ GetEnemyAt(d, p.X + positions[j][1], p.Y + positions[j][2]) = 0}
        j == CHOOSE a \in free : \A b \in free : a <= b
    IN IF free = {}
       THEN {d}
       ELSE {[d EXCEPT !.Enemies =
                 Append(d.Enemies,
                        NewEnemy(d, p.X + positions[j][1], p.Y + positions[j][2],
                                 nearEnemyTypes[1 + r]))] :
                r \in Intn(Len(nearEnemyTypes))}

(***************************************************************************)
(* Input.  A line of input is the sequence of its characters, after        *)
(* strings.TrimSpace.                                                      *)
(***************************************************************************)
Digits == {"0", "1", "2", "3", "4", "5", "6", "7", "8", "9"}

DigitValue(c) ==
    CASE c = "0" -> 0 [] c = "1" -> 1 [] c = "2" -> 2 [] c = "3" -> 3
      [] c = "4" -> 4 [] c = "5" -> 5 [] c = "6" -> 6 [] c = "7" -> 7
      [] c = "8" -> 8 [] c = "9" -> 9

\* fmt.Sscanf(input, "%d", &itemIndex): an optional sign, then the longest run
\* of digits; what follows the digits is left unread and is no error.  err is
\* set when there is no digit to read.
Sscanf(in) ==
    LET signed == Len(in) >= 1 /\ in[1] \in {"+", "-"}
        from == IF signed THEN 2 ELSE 1
        run == {n \in 0..(Len(in) - from + 1) :
                   \A i \in from..(from + n - 1) : in[i] \in Digits}
        n == CHOOSE a \in run : \A b \in run : a >= b
        value[i \in 0..n] ==
            IF i = 0 THEN 0 ELSE value[i - 1] * 10 + DigitValue(in[from + i - 1])
    IN [err |-> n = 0,
        itemIndex |-> IF n = 0 THEN 0
                      ELSE IF signed /\ in[1] = "-" THEN -value[n] ELSE value[n]]

\* The tokens of the playing state.
QuitTokens == {<<"q">>, <<"q", "u", "i", "t">>}
UpTokens == {<<"w">>, <<"u", "p">>}
DownTokens == {<<"s">>, <<"d", "o", "w", "n">>}
LeftTokens == {<<"a">>, <<"l", "e", "f", "t">>}
RightTokens == {<<"d">>, <<"r", "i", "g", "h", "t">>}
MoveTokens == UpTokens \cup DownTokens \cup LeftTokens \cup RightTokens
InventoryTokens == {<<"i">>, <<"i", "n", "v", "e", "n", "t", "o", "r", "y">>}
DescendTokens == {<<">">>}
HelpTokens == {<<"h">>, <<"h", "e", "l", "p">>}
RestTokens == {<<"r">>, <<"r", "e", "s", "t">>}
BackTokens == {<<"b">>, <<"b", "a", "c", "k">>}
RestartTokens == {<<"r">>, <<"r", "e", "s", "t", "a", "r", "t">>}

\* The step (dx, dy) main passes to Move for a movement token.
MoveStep(in) ==
    CASE in \in UpTokens -> <<0, -1>>
      [] in \in DownTokens -> <<0, 1>>
      [] in \in LeftTokens -> <<-1, 0>>
      [] in \in RightTokens -> <<1, 0>>

\* The lines the model types.
PlayingInputs ==
    {<<"q">>, <<"w">>, <<"s">>, <<"a">>, <<"d">>, <<"i">>, <<">">>, <<"h">>,
     <<"r">>, <<"x">>}
InventoryInputs ==
    {<<"b">>, <<"0">>, <<"1">>, <<"3">>, <<"x">>, <<"1", "x">>}
GameOverInputs == {<<"r">>, <<"q">>, <<"x">>}

(***************************************************************************)
(* The state of main.                                                      *)
(*   gameState  the state of the loop                                      *)
(*   dungeon    the current *Dungeon                                       *)
(*   player     the current *Player                                        *)
(*   input      the last line read                                         *)
(*   out        the lines printed while handling it                        *)
(*   turns      the number of lines read so far                            *)
(***************************************************************************)
VARIABLES gameState, dungeon, player, input, out, turns

vars == <<gameState, dungeon, player, input, out, turns>>

\* The center of the first room, where main puts the player.
StartX(d) == IF Len(d.Rooms) > 0 THEN d.Rooms[1].X + d.Rooms[1].Width \div 2 ELSE 1
StartY(d) == IF Len(d.Rooms) > 0 THEN d.Rooms[1].Y + d.Rooms[1].Height \div 2 ELSE 1

\* A variant of Descend that makes a new player, as a restart does.
DescendAsRestart(p, seed) ==
    LET d == [Dungeons[seed] EXCEPT !.Level = Dungeons[seed].Level + 1]
    IN [d |-> d, p |-> NewPlayer(StartX(d), StartY(d))]

\* What a descent does to the dungeon and the player.
Descend(p, seed) ==
    LET d == [Dungeons[seed] EXCEPT !.Level = Dungeons[seed].Level + 1]
    IN [d |-> d, p |-> [p EXCEPT !.X = StartX(d), !.Y = StartY(d)]]

\* The players the model has descend into a new level: the player of a new
\* game, one who was hurt on the levels before, and one who is a kill short of
\* level 2.
Carried ==
    {NewPlayer(0, 0),
     [NewPlayer(0, 0) EXCEPT !.Health = 2],
     [NewPlayer(0, 0) EXCEPT !.Exp = 95]}

\* main up to the loop: a new dungeon and a new player in its first room.
StartOfGame ==
    \E seed \in Seeds :
        /\ dungeon = Dungeons[seed]
        /\ player = NewPlayer(StartX(Dungeons[seed]), StartY(Dungeons[seed]))

\* The loop right after a descent: a new dungeon, and the player of the
\* levels before moved into its first room.
AfterDescent ==
    \E seed \in Seeds, p \in Carried :
        /\ dungeon = Descend(p, seed).d
        /\ player = Descend(p, seed).p

Init ==
    /\ gameState = StatePlaying
    /\ input = << >>
    /\ out = {}
    /\ turns = 0
    /\ (StartOfGame \/ AfterDescent)

\* reader.ReadString: the loop reads the line in.
Read(in) ==
    /\ turns < MaxTurns
    /\ turns' = turns + 1
    /\ input' = in

\* A variant of AfterCommand that never ends the game.
AfterCommandNoCheck(state, p) == state

\* The test of the player's health that ends every command of the playing
\* state but quit.
AfterCommand(state, p) == IF p.Health <= 0 THEN StateGameOver ELSE state

CmdQuit ==
    /\ gameState = StatePlaying
    /\ \E in \in PlayingInputs \cap QuitTokens : Read(in)
    /\ gameState' = StateExit
    /\ out' = {"goodbye"}
    /\ UNCHANGED <<dungeon, player>>

(* A movement command whose enemy pass still sees the player where the     *)
(* player stood before the move.                                           *)
CmdMoveStalePass ==
    /\ gameState = StatePlaying
    /\ \E in \in PlayingInputs \cap MoveTokens :
         /\ Read(in)
         /\ \E r \in Move(player, dungeon, MoveStep(in)[1], MoveStep(in)[2]) :
              /\ player' = r.p
              /\ out' = r.out
              /\ dungeon' \in MoveEnemies(r.d, player)
              /\ gameState' = AfterCommand(StatePlaying, r.p)

CmdMove ==
    /\ gameState = StatePlaying
    /\ \E in \in PlayingInputs \cap MoveTokens :
         /\ Read(in)
         /\ \E r \in Move(player, dungeon, MoveStep(in)[1], MoveStep(in)[2]) :
              /\ player' = r.p
              /\ out' = r.out
              /\ dungeon' \in MoveEnemies(r.d, r.p)
              /\ gameState' = AfterCommand(StatePlaying, r.p)

CmdInventory ==
    /\ gameState = StatePlaying
    /\ \E in \in PlayingInputs \cap InventoryTokens : Read(in)
    /\ gameState' = AfterCommand(StateInventory, player)
    /\ out' = {}
    /\ UNCHANGED <<dungeon, player>>

\* A variant of CmdDescend without the test for the stairs.
CmdDescendAlways ==
    /\ gameState = StatePlaying
    /\ \E in \in PlayingInputs \cap DescendTokens : Read(in)
    /\ \E seed \in Seeds :
         /\ dungeon' = Descend(player, seed).d
         /\ player' = Descend(player, seed).p
         /\ out' = {"descend"}
         /\ gameState' = AfterCommand(StatePlaying, Descend(player, seed).p)

CmdDescend ==
    /\ gameState = StatePlaying
    /\ \E in \in PlayingInputs \cap DescendTokens : Read(in)
    /\ IF GetTileAt(dungeon, player.X, player.Y) = StairsDown
       THEN \E seed \in Seeds :
              /\ dungeon' = Descend(player, seed).d
              /\ player' = Descend(player, seed).p
              /\ out' = {"descend"}
              /\ gameState' = AfterCommand(StatePlaying, Descend(player, seed).p)
       ELSE /\ out' = {"nostairs"}
            /\ gameState' = AfterCommand(StatePlaying, player)
            /\ UNCHANGED <<dungeon, player>>

CmdHelp ==
    /\ gameState = StatePlaying
    /\ \E in \in PlayingInputs \cap HelpTokens : Read(in)
    /\ gameState' = AfterCommand(StatePlaying, player)
    /\ out' = {"help"}
    /\ UNCHANGED <<dungeon, player>>

(* A rest that adds the healed amount without the cap at MaxHealth.        *)
CmdRestUncapped ==
    /\ gameState = StatePlaying
    /\ \E in \in PlayingInputs \cap RestTokens : Read(in)
    /\ \E r \in Intn(3) :
         IF r = 0
         THEN /\ dungeon' \in spawnEnemyNearPlayer(player, dungeon)
              /\ out' = {"interrupted"}
              /\ gameState' = AfterCommand(StatePlaying, player)
              /\ UNCHANGED player
         ELSE \E healAmount \in {2 + h : h \in Intn(3)} :
                LET p1 == [player EXCEPT !.Health = player.Health + healAmount]
                IN /\ player' = p1
                   /\ out' = {"rested"}
                   /\ dungeon' \in MoveEnemies(dungeon, p1)
                   /\ gameState' = AfterCommand(StatePlaying, p1)

CmdRest ==
    /\ gameState = StatePlaying
    /\ \E in \in PlayingInputs \cap RestTokens : Read(in)
    /\ \E r \in Intn(3) :
         IF r = 0
         THEN /\ dungeon' \in spawnEnemyNearPlayer(player, dungeon)
              /\ out' = {"interrupted"}
              /\ gameState' = AfterCommand(StatePlaying, player)
              /\ UNCHANGED player
         ELSE \E healAmount \in {2 + h : h \in Intn(3)} :
                LET p1 == [player EXCEPT
                              !.Health = IF player.Health + healAmount > player.MaxHealth
                                         THEN player.MaxHealth
                                         ELSE player.Health + healAmount]
                IN /\ player' = p1
                   /\ out' = {"rested"}
                   /\ dungeon' \in MoveEnemies(dungeon, p1)
                   /\ gameState' = AfterCommand(StatePlaying, p1)

(* An unrecognised command that still costs a turn: the enemies move.      *)
CmdUnknownEndsTurn ==
    /\ gameState = StatePlaying
    /\ \E in \in PlayingInputs \ (QuitTokens \cup MoveTokens \cup InventoryTokens
                                  \cup DescendTokens \cup HelpTokens \cup RestTokens) :
         Read(in)
    /\ gameState' = AfterCommand(StatePlaying, player)
    /\ out' = {"unknown"}
    /\ dungeon' \in MoveEnemies(dungeon, player)
    /\ UNCHANGED player

CmdUnknown ==
    /\ gameState = StatePlaying
    /\ \E in \in PlayingInputs \ (QuitTokens \cup MoveTokens \cup InventoryTokens
                                  \cup DescendTokens \cup HelpTokens \cup RestTokens) :
         Read(in)
    /\ gameState' = AfterCommand(StatePlaying, player)
    /\ out' = {"unknown"}
    /\ UNCHANGED <<dungeon, player>>

InvBack ==
    /\ gameState = StateInventory
    /\ \E in \in InventoryInputs \cap BackTokens : Read(in)
    /\ gameState' = StatePlaying
    /\ out' = {}
    /\ UNCHANGED <<dungeon, player>>

\* The selection of the inventory state, as main handles it.
Select(p, in) ==
    LET scan == Sscanf(in)
    IN IF ~scan.err /\ scan.itemIndex > 0 /\ scan.itemIndex <= Len(p.Inventory)
       THEN UseItem(p, scan.itemIndex - 1)
       ELSE [p |-> p, out |-> {"invalidselection"}]

InvSelect ==
    /\ gameState = StateInventory
    /\ \E in \in InventoryInputs \ BackTokens :
         /\ Read(in)
         /\ player' = Select(player, in).p
         /\ out' = Select(player, in).out
    /\ UNCHANGED <<gameState, dungeon>>

(* A restart that keeps the dead player's record and only moves it.        *)
OverRestartKeepsPlayer ==
    /\ gameState = StateGameOver
    /\ \E in \in GameOverInputs \cap RestartTokens : Read(in)
    /\ \E seed \in Seeds :
         /\ dungeon' = Dungeons[seed]
         /\ player' = [player EXCEPT !.X = StartX(Dungeons[seed]),
                                     !.Y = StartY(Dungeons[seed])]
    /\ gameState' = StatePlaying
    /\ out' = {}

OverRestart ==
    /\ gameState = StateGameOver
    /\ \E in \in GameOverInputs \cap RestartTokens : Read(in)
    /\ \E seed \in Seeds :
         /\ dungeon' = Dungeons[seed]
         /\ player' = NewPlayer(StartX(Dungeons[seed]), StartY(Dungeons[seed]))
    /\ gameState' = StatePlaying
    /\ out' = {}

OverQuit ==
    /\ gameState = StateGameOver
    /\ \E in \in GameOverInputs \cap QuitTokens : Read(in)
    /\ gameState' = StateExit
    /\ out' = {"goodbye"}
    /\ UNCHANGED <<dungeon, player>>

OverOther ==
    /\ gameState = StateGameOver
    /\ \E in \in GameOverInputs \ (RestartTokens \cup QuitTokens) : Read(in)
    /\ out' = {}
    /\ UNCHANGED <<gameState, dungeon, player>>

Next ==
    \/ CmdQuit
    \/ CmdMove
    \/ CmdInventory
    \/ CmdDescend
    \/ CmdHelp
    \/ CmdRest
    \/ CmdUnknown
    \/ InvBack
    \/ InvSelect
    \/ OverRestart
    \/ OverQuit
    \/ OverOther

Spec == Init /\ [][Next]_vars

(***************************************************************************)
(* The player's operations on their own.  SpecAPI applies CheckLevelUp,    *)
(* UseItem and the selection of the inventory state to players that no     *)
(* game of main reaches: the dungeons of NewDungeon hold no potion, weapon *)
(* or armor, and a kill gives at most 11 experience.  The players hold     *)
(* up to MaxInventory items, each made by its constructor and marked       *)
(* collected as CollectItem does before it appends.                        *)
(***************************************************************************)

Held ==
    {[item EXCEPT !.Collected = TRUE] :
        item \in {NewHealthPotion(0, 0), NewWeapon(0, 0, "Sword", 5),
                  NewArmor(0, 0, "Shield", 3)}}

Inventories == UNION {[1..n -> Held] : n \in 0..MaxInventory}

\* The last is enough for two levels from the highest starting level.
Experiences == {0, 99, 100, 250, 300, 350, 100 * MaxLevel + 100 * (MaxLevel + 1)}

Healths == {5, 20}

\* The starting levels, each with the maxHealth and attack its level-ups gave.
Levels == 1..MaxLevel

InitAPI ==
    /\ gameState = StateInventory
    /\ dungeon = Dungeons[1]
    /\ \E l \in Levels, e \in Experiences, h \in Healths, inv \in Inventories :
         player = [NewPlayer(StartX(Dungeons[1]), StartY(Dungeons[1])) EXCEPT
                      !.Level = l, !.MaxHealth = 20 + 5 * (l - 1),
                      !.Attack = 3 + (l - 1),
                      !.Exp = e, !.Health = h, !.Inventory = inv]
    /\ input = << >>
    /\ out = {}
    /\ turns = 0

\* p.CheckLevelUp()
ApiCheckLevelUp ==
    /\ Read(<<"CheckLevelUp">>)
    /\ player' = CheckLevelUp(player)
    /\ out' = IF CheckLevelUp(player).Level > player.Level THEN {"levelup"} ELSE {}
    /\ UNCHANGED <<gameState, dungeon>>

\* p.UseItem(itemIndex)
ApiUseItem ==
    /\ Read(<<"UseItem">>)
    /\ \E itemIndex \in -1..MaxInventory :
         /\ player' = UseItem(player, itemIndex).p
         /\ out' = UseItem(player, itemIndex).out
    /\ UNCHANGED <<gameState, dungeon>>

NextAPI ==
    \/ ApiCheckLevelUp
    \/ ApiUseItem
    \/ InvSelect

SpecAPI == InitAPI /\ [][NextAPI]_vars

(***************************************************************************)
(* Room generation on its own.  SpecGen runs generateRooms with every      *)
(* position a draw can give, on the smallest grid the size range allows    *)
(* and on a square grid of side GenSize.  dungeon is the dungeon under     *)
(* construction and turns the loop index i.  The number of rooms is drawn  *)
(* before the loop and read only by the loop test, so the model lets the   *)
(* loop end at any index that number can take.  input' names the step      *)
(* taken.                                                                  *)
(***************************************************************************)
minRooms == 4
maxRooms == 8

Grids == {<<maxSize + 3, maxSize + 3>>, <<GenSize, GenSize>>}

RoomSizes == {minSize + r : r \in Intn(maxSize - minSize + 1)}

InitGen ==
    /\ gameState = StatePlaying
    /\ \E g \in Grids : dungeon = WalledDungeon(g[1], g[2])
    /\ player = NewPlayer(0, 0)
    /\ input = << >>
    /\ out = {}
    /\ turns = 0

GenRoom ==
    /\ input # <<"generateRooms">>
    /\ turns < maxRooms
    /\ \E width \in RoomSizes, height \in RoomSizes :
         \E x \in 1..(dungeon.Width - width - 2),
            y \in 1..(dungeon.Height - height - 2) :
              dungeon' = placeRoom(dungeon, [X |-> x, Y |-> y,
                                             Width |-> width, Height |-> height])
    /\ turns' = turns + 1
    /\ input' = <<"placeRoom">>
    /\ UNCHANGED <<gameState, player, out>>

GenRoomsDone ==
    /\ input # <<"generateRooms">>
    /\ turns \in minRooms..maxRooms
    /\ dungeon' = defaultRoom(dungeon)
    /\ input' = <<"generateRooms">>
    /\ UNCHANGED <<gameState, player, out, turns>>

NextGen ==
    \/ GenRoom
    \/ GenRoomsDone

SpecGen == InitGen /\ [][NextGen]_vars

(***************************************************************************)
(* NewDungeon step by step.  SpecLevel runs NewDungeon on the grids of     *)
(* SpecGen with the draws of Intn: the rooms one attempt at a time, the    *)
(* corridors with either order for every pair of rooms, and the features   *)
(* and the enemies from the stream of a seed.  turns is the index of the   *)
(* loop that is running and input' names the step taken.                   *)
(***************************************************************************)
minEnemies == 3
maxEnemies == 6

LvlRoom ==
    /\ input \in {<< >>, <<"placeRoom">>}
    /\ turns < maxRooms
    /\ \E width \in RoomSizes, height \in RoomSizes :
         \E x \in {1 + r : r \in Intn(dungeon.Width - width - 2)},
            y \in {1 + r : r \in Intn(dungeon.Height - height - 2)} :
              dungeon' = placeRoom(dungeon, [X |-> x, Y |-> y,
                                             Width |-> width, Height |-> height])
    /\ turns' = turns + 1
    /\ input' = <<"placeRoom">>
    /\ UNCHANGED <<gameState, player, out>>

LvlRoomsDone ==
    /\ input \in {<< >>, <<"placeRoom">>}
    /\ turns \in {minRooms + r : r \in Intn(maxRooms - minRooms + 1)}
    /\ dungeon' = defaultRoom(dungeon)
    /\ input' = <<"generateRooms">>
    /\ turns' = 0
    /\ UNCHANGED <<gameState, player, out>>

\* The dungeons connectRooms may leave, from the pair at index i on.
RECURSIVE connectRoomsFrom(_, _)
connectRoomsFrom(d, i) ==
    IF i >= Len(d.Rooms)
    THEN {d}
    ELSE UNION {connectRoomsFrom(connectPair(d, i, r), i + 1) : r \in Intn(2)}

LvlConnect ==
    /\ input = <<"generateRooms">>
    /\ dungeon' \in connectRoomsFrom(dungeon, 1)
    /\ input' = <<"connectRooms">>
    /\ UNCHANGED <<gameState, player, out, turns>>

LvlFeatures ==
    /\ input = <<"connectRooms">>
    /\ \E seed \in Seeds : dungeon' = addFeatures(dungeon, seed, 1).d
    /\ input' = <<"addFeatures">>
    /\ UNCHANGED <<gameState, player, out, turns>>

\* The enemies are spawned, NewDungeon returns and main places the player.
LvlDone ==
    /\ input = <<"addFeatures">>
    /\ \E seed \in Seeds :
         dungeon' = spawnEnemies(dungeon, seed, 1, minEnemies, maxEnemies)
    /\ player' = NewPlayer(StartX(dungeon), StartY(dungeon))
    /\ input' = <<"NewDungeon">>
    /\ UNCHANGED <<gameState, out, turns>>

NextLevel ==
    \/ LvlRoom
    \/ LvlRoomsDone
    \/ LvlConnect
    \/ LvlFeatures
    \/ LvlDone

SpecLevel == InitGen /\ [][NextLevel]_vars

(***************************************************************************)
(* spawnEnemies on its own.  SpecSpawn starts from the generated dungeons  *)
(* as they are when spawnEnemies is called, their grid and items complete  *)
(* and no enemy yet, and runs the loop one spawn at a time with the draws  *)
(* of Intn.  The number of enemies is drawn before the loop and read only  *)
(* by the loop test, so the loop may end at any index that number can      *)
(* take.  turns is the loop index i.                                       *)
(***************************************************************************)
InitSpawn ==
    /\ gameState = StatePlaying
    /\ \E seed \in Seeds : dungeon = [Dungeons[seed] EXCEPT !.Enemies = << >>]
    /\ player = NewPlayer(0, 0)
    /\ input = <<"addFeatures">>
    /\ out = {}
    /\ turns = 0

SpawnEnemy ==
    /\ input \in {<<"addFeatures">>, <<"spawnEnemy">>}
    /\ turns < maxEnemies
    /\ Len(dungeon.Rooms) > 1
    /\ \E roomIndex \in {1 + r : r \in Intn(Len(dungeon.Rooms) - 1)} :
         LET room == dungeon.Rooms[roomIndex + 1]
         IN \E ox \in Intn(room.Width), oy \in Intn(room.Height),
               t \in Intn(Len(enemyTypes)) :
                 dungeon' = spawnEnemyAt(dungeon, room.X + ox, room.Y + oy, t)
    /\ turns' = turns + 1
    /\ input' = <<"spawnEnemy">>
    /\ UNCHANGED <<gameState, player, out>>

\* NewDungeon returns and main places the player.
SpawnDone ==
    /\ input \in {<<"addFeatures">>, <<"spawnEnemy">>}
    /\ \/ Len(dungeon.Rooms) <= 1
       \/ turns \in {minEnemies + r : r \in Intn(maxEnemies - minEnemies + 1)}
    /\ player' = NewPlayer(StartX(dungeon), StartY(dungeon))
    /\ input' = <<"NewDungeon">>
    /\ turns' = 0
    /\ UNCHANGED <<gameState, dungeon, out>>

NextSpawn ==
    \/ SpawnEnemy
    \/ SpawnDone

SpecSpawn == InitSpawn /\ [][NextSpawn]_vars

(***************************************************************************)
(* The properties.  Every step reads one line, input', so a property of a  *)
(* command is a property of the steps whose input' is that command.        *)
(***************************************************************************)

\* The step reads a movement command in the playing state; Target is the cell
\* the command aims at.
Moves == gameState = StatePlaying /\ input' \in MoveTokens
TargetX == player.X + MoveStep(input')[1]
TargetY == player.Y + MoveStep(input')[2]

\* The movement command is rejected: no living enemy at the target, and the
\* target is a wall or out of bounds.
Rejected ==
    /\ Moves
    /\ GetEnemyAt(dungeon, TargetX, TargetY) = 0
    /\ ~IsWalkable(dungeon, TargetX, TargetY)

\* The step reads '>' in the playing state.
OnStairs == GetTileAt(dungeon, player.X, player.Y) = StairsDown
Descends == gameState = StatePlaying /\ input' \in DescendTokens /\ OnStairs
DescendsOffStairs == gameState = StatePlaying /\ input' \in DescendTokens /\ ~OnStairs

\* C1: a rejected movement command changes nothing: the player, the grid, the
\* items and every enemy are after the command as they were before it.
C1_RejectedMoveChangesNothing ==
    [][Rejected => (player' = player /\ dungeon' = dungeon)]_vars

\* A rejected move has been reported in a dungeon that has enemies.
C1_RejectedMoveAmongEnemies ==
    /\ gameState = StatePlaying
    /\ input \in MoveTokens
    /\ out = {"cantmove"}
    /\ Len(dungeon.Enemies) > 0

\* C2: '>' on the stairs of a dungeon of level N yields a dungeon of level N + 1,
\* for every N and after any number of descents.
C2_DescentRaisesLevel ==
    [][Descends => dungeon'.Level = dungeon.Level + 1]_vars

\* A descent from a dungeon has been made twice and the level is still 2.
C2_SecondDescentAtLevelTwo ==
    /\ input \in DescendTokens
    /\ out = {"descend"}
    /\ turns >= 2
    /\ dungeon.Level = 2

\* C3: a successful descent changes only the dungeon and the player's position:
\* the other fields of the player are kept, and the position is the center of
\* room 0 of the new dungeon.
C3_DescentKeepsPlayer ==
    [][Descends =>
         /\ player' = [player EXCEPT
                          !.X = dungeon'.Rooms[1].X + dungeon'.Rooms[1].Width \div 2,
                          !.Y = dungeon'.Rooms[1].Y + dungeon'.Rooms[1].Height \div 2]
         /\ gameState' = gameState]_vars

\* A player who is not the player of a new game has descended.
C3_HurtPlayerDescended ==
    /\ input \in DescendTokens
    /\ out = {"descend"}
    /\ player.Health < player.MaxHealth

\* C4: '>' off the stairs changes neither the dungeon (grid, rooms, enemies,
\* items, level) nor the player, and the loop stays in the playing state.
C4_NoStairsNoChange ==
    [][DescendsOffStairs => UNCHANGED <<dungeon, player, gameState>>]_vars

\* '>' has been refused in a dungeon whose enemies could have moved.
C4_RefusedAmongEnemies ==
    /\ input \in DescendTokens
    /\ out = {"nostairs"}
    /\ Len(dungeon.Enemies) > 0

\* The step applies CheckLevelUp to a player at level 1 with experience 250.
LevelsUpFrom250 ==
    /\ input' = <<"CheckLevelUp">>
    /\ player.Level = 1
    /\ player.Exp = 250

\* C5, as the code has it: the level-up check of a player at level 1 with
\* experience 250 yields level 2 with leftover experience 150 (the threshold
\* of level 2 is 200, which 150 does not reach).
C5_LevelUpFrom250 ==
    [][LevelsUpFrom250 => (player'.Level = 2 /\ player'.Exp = 150)]_vars

\* CheckLevelUp has levelled a player up to level 2 and left experience 150.
C5_LevelledFrom250 ==
    /\ input = <<"CheckLevelUp">>
    /\ "levelup" \in out
    /\ player.Level = 2
    /\ player.Exp = 150

\* C5, as the claim has it: the level-up check of a player at level 1 with
\* experience 250 yields level 3 with leftover experience 50.
C5_LevelThreeFrom250 ==
    [][LevelsUpFrom250 => (player'.Level = 3 /\ player'.Exp = 50)]_vars

\* A line is numeric when it is a non-empty run of digits.
IsNumeric(in) == Len(in) > 0 /\ \A i \in 1..Len(in) : in[i] \in Digits

\* The number a numeric line writes.
RECURSIVE NumberOf(_)
NumberOf(in) ==
    IF Len(in) = 0 THEN 0
    ELSE 10 * NumberOf(SubSeq(in, 1, Len(in) - 1)) + DigitValue(in[Len(in)])

\* A selection that is non-numeric, 0, or greater than the inventory length.
InvalidSelection(p, in) ==
    \/ ~IsNumeric(in)
    \/ NumberOf(in) = 0
    \/ NumberOf(in) > Len(p.Inventory)

\* What the claim says an operation leaves alone.
SameItemsAndStats(p, q) ==
    /\ q.Inventory = p.Inventory
    /\ q.Health = p.Health
    /\ q.Attack = p.Attack
    /\ q.Defense = p.Defense

C6_OutOfRangeMutatesNothing ==
    /\ \A itemIndex \in -1..MaxInventory :
         (itemIndex < 0 \/ itemIndex >= Len(player.Inventory))
            => UseItem(player, itemIndex).p = player
    /\ \A in \in InventoryInputs \ BackTokens :
         (Sscanf(in).err \/ Sscanf(in).itemIndex <= 0
            \/ Sscanf(in).itemIndex > Len(player.Inventory))
            => Select(player, in).p = player

\* The movement command aims at a living enemy; Attacked is that enemy.
Attacks == Moves /\ GetEnemyAt(dungeon, TargetX, TargetY) # 0
Attacked == dungeon.Enemies[GetEnemyAt(dungeon, TargetX, TargetY)]

\* The movement command takes the player to its target.
Arrives ==
    /\ Moves
    /\ GetEnemyAt(dungeon, TargetX, TargetY) = 0
    /\ IsWalkable(dungeon, TargetX, TargetY)

\* The experience a player has gained in all: what the levels reached have
\* cost (100 for level 1, 200 for level 2, ...) and what is left.
TotalExp(p) == p.Exp + 50 * p.Level * (p.Level - 1)

MaxOf(a, b) == IF a >= b THEN a ELSE b

\* C7: moving into a living enemy whose health is at most the player's attack
\* kills it: the enemy is in the collection no more, the player gains exactly
\* 5 + 2 * damage experience (counted before the level-up subtracts), takes no
\* damage, and gains 0 gold or between 1 and 10.
C7_KillInOneHit ==
    [][(Attacks /\ Attacked.Health <= player.Attack) =>
         /\ \A i \in 1..Len(dungeon'.Enemies) : dungeon'.Enemies[i].id # Attacked.id
         /\ Len(dungeon'.Enemies) = Len(dungeon.Enemies) - 1
         /\ TotalExp(player') = TotalExp(player) + 5 + 2 * Attacked.Damage
         /\ player'.Health >= player.Health
         /\ (player'.Level = player.Level => player'.Health = player.Health)
         /\ (player'.Gold - player.Gold) \in ({0} \cup 1..10)]_vars

\* An enemy has been killed and has dropped gold.
C7_EnemyKilled ==
    /\ input \in MoveTokens
    /\ {"attack", "defeated", "foundgold"} \subseteq out

\* C8: attacking an enemy that survives costs the player exactly
\* max(1, damage - defense) health, which is at least 1 whatever the defense,
\* and the enemy stays in the collection with its health less the attack.
C8_SurvivorCounterattacks ==
    [][(Attacks /\ Attacked.Health > player.Attack) =>
         /\ player'.Health =
              player.Health - MaxOf(1, Attacked.Damage - player.Defense)
         /\ \A defense \in 0..MaxDefense :
              /\ CounterDamage(Attacked, [player EXCEPT !.Defense = defense]) >= 1
              /\ CounterDamage(Attacked, [player EXCEPT !.Defense = defense])
                   = MaxOf(1, Attacked.Damage - defense)
         /\ \E i \in 1..Len(dungeon'.Enemies) :
              /\ dungeon'.Enemies[i].id = Attacked.id
              /\ dungeon'.Enemies[i].Health = Attacked.Health - player.Attack
         /\ Len(dungeon'.Enemies) = Len(dungeon.Enemies)]_vars

\* An enemy has survived an attack and has struck back.
C8_EnemyStruckBack ==
    /\ input \in MoveTokens
    /\ {"attack", "counter"} \subseteq out

\* The step makes a new dungeon.
NewLevel == Descends \/ (gameState = StateGameOver /\ input' \in RestartTokens)

\* C9: arriving on a Trap costs between 2 and 4 health and makes the cell Floor;
\* a cell that is no Trap becomes one only with a new dungeon, and arriving on
\* a cell that is no Trap costs no health, so a trap damages at most once; and
\* arriving on a Floor cell with no uncollected item changes nothing but the
\* player's position (the enemies move after the arrival, as after every
\* movement command).
C9_TrapOnce ==
    [][/\ (Arrives /\ GetTileAt(dungeon, TargetX, TargetY) = Trap) =>
            /\ (player.Health - player'.Health) \in 2..4
            /\ GetTileAt(dungeon', TargetX, TargetY) = Floor
       /\ (Arrives /\ GetTileAt(dungeon, TargetX, TargetY) # Trap) =>
            player'.Health = player.Health
       /\ (dungeon'.Grid # dungeon.Grid /\ ~NewLevel) =>
            \A x \in 0..(W - 1), y \in 0..(H - 1) :
                GetTileAt(dungeon', x, y) = Trap => GetTileAt(dungeon, x, y) = Trap
       /\ (/\ Arrives
           /\ GetTileAt(dungeon, TargetX, TargetY) = Floor
           /\ GetItemAt(dungeon, TargetX, TargetY) = 0) =>
            /\ player' = [player EXCEPT !.X = TargetX, !.Y = TargetY]
            /\ dungeon'.Grid = dungeon.Grid
            /\ dungeon'.Items = dungeon.Items
            /\ \A r \in Move(player, dungeon, MoveStep(input')[1], MoveStep(input')[2]) :
                 /\ r.p = [player EXCEPT !.X = TargetX, !.Y = TargetY]
                 /\ r.d = dungeon]_vars

\* The player has arrived again on a cell that was a Trap when the dungeon was
\* made and is Floor now, and nothing has happened.
C9_BackOnDisarmedTrap ==
    /\ gameState = StatePlaying
    /\ input \in MoveTokens
    /\ out = {}
    /\ GetTileAt(dungeon, player.X, player.Y) = Floor
    /\ player.Health < player.MaxHealth
    /\ \E seed \in Seeds :
         /\ dungeon.Rooms = Dungeons[seed].Rooms
         /\ GetTileAt(Dungeons[seed], player.X, player.Y) = Trap

\* C10: a playing-state command that leaves the player's health at 0 or less
\* ends in the game-over state, so the loop waits for a playing-state or an
\* inventory-state command only with health above 0; and from game over the
\* loop goes on only by a restart (a new game) or a quit, any other line
\* leaving everything as it is.
C10_DeathIsGameOver ==
    /\ [](gameState \in {StatePlaying, StateInventory} => player.Health > 0)
    /\ [][/\ (gameState = StatePlaying /\ player'.Health <= 0)
               => gameState' = StateGameOver
          /\ gameState = StateGameOver =>
               \/ /\ input' \in RestartTokens
                  /\ gameState' = StatePlaying
                  /\ player'.Health = player'.MaxHealth
                  /\ dungeon'.Level = 1
               \/ /\ input' \in QuitTokens
                  /\ gameState' = StateExit
               \/ /\ input' \notin (RestartTokens \cup QuitTokens)
                  /\ UNCHANGED <<gameState, dungeon, player>>]_vars

\* The player has died and the game is over.
C10_Dead ==
    /\ gameState = StateGameOver
    /\ player.Health <= 0
    /\ "trapdeath" \in out

(***************************************************************************)
(* C11.  A restart from the game-over state discards all progress: the     *)
(* game is playing again, the dungeon is a freshly generated one with      *)
(* level counter 1, and the player has the default stats (health 20,       *)
(* maxHealth 20, attack 3, defense 1, gold 0, level 1, experience 0, empty *)
(* inventory) and stands at the center of room 0, whatever came before.    *)
(***************************************************************************)
Restarts == gameState = StateGameOver /\ input' \in RestartTokens

RoomCenterX(d) == d.Rooms[1].X + d.Rooms[1].Width \div 2

RoomCenterY(d) == d.Rooms[1].Y + d.Rooms[1].Height \div 2

C11_RestartResetsEverything ==
    [][Restarts =>
          /\ gameState' = StatePlaying
          /\ \E seed \in Seeds : dungeon' = Dungeons[seed]
          /\ dungeon'.Level = 1
          /\ player' = [X |-> RoomCenterX(dungeon'), Y |-> RoomCenterY(dungeon'),
                        Health |-> 20, MaxHealth |-> 20, Attack |-> 3,
                        Defense |-> 1, Gold |-> 0, Level |-> 1, Exp |-> 0,
                        Inventory |-> <<>>]]_vars

(* A game restarted after a death: "r" read outside the playing state      *)
(* prints nothing, a rest always prints.                                   *)
C11_Restarted ==
    /\ gameState = StatePlaying
    /\ input \in RestartTokens
    /\ out = {}
    /\ turns >= 2

(***************************************************************************)
(* C12.  In the playing state an input that is none of the recognised      *)
(* command tokens is a no-op: the player, the grid, the items and all      *)
(* enemies are unchanged, no enemy pass runs, and the game stays in the    *)
(* playing state.                                                          *)
(***************************************************************************)
Unknown ==
    /\ gameState = StatePlaying
    /\ input' \notin (QuitTokens \cup MoveTokens \cup InventoryTokens
                      \cup DescendTokens \cup HelpTokens \cup RestTokens)

C12_UnknownInputIsNoOp ==
    [][Unknown => /\ player' = player
                  /\ dungeon' = dungeon
                  /\ gameState' = StatePlaying]_vars

(* An unknown command was read while enemies were within pursuit range.    *)
C12_UnknownAmongEnemies ==
    /\ out = {"unknown"}
    /\ \E i \in 1..Len(dungeon.Enemies) :
         /\ dungeon.Enemies[i].Health > 0
         /\ abs(dungeon.Enemies[i].X - player.X)
              + abs(dungeon.Enemies[i].Y - player.Y) < 5

(***************************************************************************)
(* C13.  Every dungeon generation produces has a non-empty room list,      *)
(* every room lies within the grid, and no two distinct rooms of the list  *)
(* have intersecting bounding boxes once each is padded by one tile.       *)
(***************************************************************************)
PaddedBox(r) ==
    {<<x, y>> : x \in (r.X - 1)..(r.X + r.Width), y \in (r.Y - 1)..(r.Y + r.Height)}

RoomsWellPlaced(d) ==
    /\ \A i \in 1..Len(d.Rooms) :
         /\ 0 <= d.Rooms[i].X
         /\ d.Rooms[i].X + d.Rooms[i].Width <= d.Width
         /\ 0 <= d.Rooms[i].Y
         /\ d.Rooms[i].Y + d.Rooms[i].Height <= d.Height
    /\ \A i, j \in 1..Len(d.Rooms) :
         i # j => PaddedBox(d.Rooms[i]) \cap PaddedBox(d.Rooms[j]) = {}

C13_RoomsWellPlaced ==
    /\ RoomsWellPlaced(dungeon)
    /\ input = <<"generateRooms">> => Len(dungeon.Rooms) > 0

(* Generation has returned three rooms, two of them two tiles apart.       *)
C13_ThreeRoomsTwoApart ==
    /\ input = <<"generateRooms">>
    /\ Len(dungeon.Rooms) >= 3
    /\ \E i, j \in 1..Len(dungeon.Rooms) :
         dungeon.Rooms[j].X = dungeon.Rooms[i].X + dungeon.Rooms[i].Width + 2

(***************************************************************************)
(* C14.  In every state the commands can reach, the player's health is at  *)
(* most maxHealth, gold is at least 0, level at least 1 and experience at  *)
(* least 0.                                                                *)
(***************************************************************************)
C14_PlayerWithinLimits ==
    /\ player.Health <= player.MaxHealth
    /\ player.Gold >= 0
    /\ player.Level >= 1
    /\ player.Exp >= 0

(* The player sprang a trap and has rested back to full health where it    *)
(* was.                                                                    *)
C14_RestedToFullHealth ==
    /\ gameState = StatePlaying
    /\ out = {"rested"}
    /\ player.Health = player.MaxHealth
    /\ GetTileAt(dungeon, player.X, player.Y) = Floor
    /\ \E seed \in Seeds :
         /\ dungeon.Rooms = Dungeons[seed].Rooms
         /\ GetTileAt(Dungeons[seed], player.X, player.Y) = Trap

(***************************************************************************)
(* C15.  An accepted turn (a move that relocates the player, an attack, an *)
(* uninterrupted rest) is followed by exactly one enemy pass, run after    *)
(* the player's action: every enemy takes at most one step, an enemy in    *)
(* pursuit range of the player's position after the action steps towards   *)
(* that position or stays, the first enemy of the collection does step     *)
(* when it pursues and its destination is free, and an enemy killed by the *)
(* action is gone and takes no step.                                       *)
(***************************************************************************)
RestsThrough == gameState = StatePlaying /\ input' \in RestTokens /\ out' = {"rested"}

AcceptedTurn == Arrives \/ Attacks \/ RestsThrough

EnemyIds(d) == {d.Enemies[i].id : i \in 1..Len(d.Enemies)}

EnemyOf(d, id) == d.Enemies[CHOOSE i \in 1..Len(d.Enemies) : d.Enemies[i].id = id]

Killed == IF Attacks /\ Attacked.Health <= player.Attack THEN {Attacked.id} ELSE {}

InPursuitRange(e, p) == abs(p.X - e.X) + abs(p.Y - e.Y) < 5 /\ e.Hostile

PursuitStep(e, p) ==
    IF abs(p.X - e.X) > abs(p.Y - e.Y)
    THEN <<IF p.X > e.X THEN 1 ELSE -1, 0>>
    ELSE <<0, IF p.Y > e.Y THEN 1 ELSE -1>>

\* The enemy of the collection after the step that stood at (x, y) before it.
StoodAt(x, y) ==
    {id \in EnemyIds(dungeon') :
        EnemyOf(dungeon, id).X = x /\ EnemyOf(dungeon, id).Y = y}

C15_OnePassAfterTheAction ==
    [][AcceptedTurn =>
         /\ EnemyIds(dungeon') = EnemyIds(dungeon) \ Killed
         /\ Len(dungeon'.Enemies) = Cardinality(EnemyIds(dungeon'))
         /\ \A id \in EnemyIds(dungeon') :
              LET b == EnemyOf(dungeon, id)
                  a == EnemyOf(dungeon', id)
              IN <<a.X - b.X, a.Y - b.Y>> \in
                    {<<0, 0>>} \cup
                    (IF InPursuitRange(b, player')
                     THEN {PursuitStep(b, player')}
                     ELSE {<<0, -1>>, <<1, 0>>, <<0, 1>>, <<-1, 0>>})
         /\ Len(dungeon'.Enemies) >= 1 =>
              LET a == dungeon'.Enemies[1]
                  b == EnemyOf(dungeon, a.id)
                  x == b.X + PursuitStep(b, player')[1]
                  y == b.Y + PursuitStep(b, player')[2]
              IN (/\ InPursuitRange(b, player')
                  /\ ~(x = player'.X /\ y = player'.Y)
                  /\ IsWalkable(dungeon', x, y)
                  /\ StoodAt(x, y) = {}) => (a.X = x /\ a.Y = y)]_vars

(* An attack has killed an enemy while another one was in pursuit range.   *)
C15_KilledWhilePursued ==
    /\ input \in MoveTokens
    /\ {"attack", "defeated"} \subseteq out
    /\ \E i \in 1..Len(dungeon.Enemies) : InPursuitRange(dungeon.Enemies[i], player)

(***************************************************************************)
(* C16.  A rest has exactly one of two outcomes.  Interrupted: the player  *)
(* is as before, no enemy that was there moves, and at most one new living *)
(* enemy appears, on a walkable tile next to the player (one of the eight  *)
(* neighbours, not the player's tile) that held no living enemy.           *)
(* Uninterrupted: the player's health becomes min(maxHealth, health + h)   *)
(* for some h in 2..4 and then one enemy pass runs.                        *)
(***************************************************************************)
Rests == gameState = StatePlaying /\ input' \in RestTokens

RestInterrupted ==
    /\ out' = {"interrupted"}
    /\ player' = player
    /\ dungeon'.Grid = dungeon.Grid
    /\ dungeon'.Items = dungeon.Items
    /\ Len(dungeon'.Enemies) \in {Len(dungeon.Enemies), Len(dungeon.Enemies) + 1}
    /\ SubSeq(dungeon'.Enemies, 1, Len(dungeon.Enemies)) = dungeon.Enemies
    /\ Len(dungeon'.Enemies) = Len(dungeon.Enemies) + 1 =>
         LET e == dungeon'.Enemies[Len(dungeon'.Enemies)]
         IN /\ e.Health > 0
            /\ abs(e.X - player.X) <= 1
            /\ abs(e.Y - player.Y) <= 1
            /\ ~(e.X = player.X /\ e.Y = player.Y)
            /\ IsWalkable(dungeon, e.X, e.Y)
            /\ GetEnemyAt(dungeon, e.X, e.Y) = 0

RestUninterrupted ==
    /\ out' = {"rested"}
    /\ \E h \in 2..4 :
         player' = [player EXCEPT
                       !.Health = IF player.Health + h < player.MaxHealth
                                  THEN player.Health + h
                                  ELSE player.MaxHealth]
    /\ dungeon'.Grid = dungeon.Grid
    /\ dungeon'.Items = dungeon.Items
    /\ EnemyIds(dungeon') = EnemyIds(dungeon)
    /\ Len(dungeon'.Enemies) = Len(dungeon.Enemies)
    /\ \A id \in EnemyIds(dungeon') :
         LET b == EnemyOf(dungeon, id)
             a == EnemyOf(dungeon', id)
         IN /\ [a EXCEPT !.X = b.X, !.Y = b.Y] = b
            /\ <<a.X - b.X, a.Y - b.Y>> \in
                  {<<0, 0>>} \cup
                  (IF InPursuitRange(b, player')
                   THEN {PursuitStep(b, player')}
                   ELSE {<<0, -1>>, <<1, 0>>, <<0, 1>>, <<-1, 0>>})

C16_RestHasTwoOutcomes ==
    [][Rests => (RestInterrupted \/ RestUninterrupted)]_vars

(* A rest was interrupted in a dungeon that already held enemies, and the  *)
(* newcomer stands next to the player.                                     *)
C16_InterruptedAmongEnemies ==
    /\ out = {"interrupted"}
    /\ Len(dungeon.Enemies) >= 2
    /\ LET e == dungeon.Enemies[Len(dungeon.Enemies)]
       IN abs(e.X - player.X) <= 1 /\ abs(e.Y - player.Y) <= 1

(***************************************************************************)
(* C17.  In every reachable state every enemy of the dungeon's collection  *)
(* and every item of its item list has a position inside the grid:         *)
(* 0 <= x < width and 0 <= y < height.                                     *)
(***************************************************************************)
InsideGrid(d, x, y) == 0 <= x /\ x < d.Width /\ 0 <= y /\ y < d.Height

C17_EnemiesAndItemsInsideGrid ==
    /\ \A i \in 1..Len(dungeon.Enemies) :
         InsideGrid(dungeon, dungeon.Enemies[i].X, dungeon.Enemies[i].Y)
    /\ \A i \in 1..Len(dungeon.Items) :
         InsideGrid(dungeon, dungeon.Items[i].X, dungeon.Items[i].Y)

(* A dungeon with items where a generated enemy has moved and a rest has   *)
(* brought a new one.                                                      *)
C17_EnemiesMovedAndAdded ==
    \E seed \in Seeds :
        /\ dungeon.Rooms = Dungeons[seed].Rooms
        /\ Len(dungeon.Items) > 0
        /\ Len(dungeon.Enemies) > Len(Dungeons[seed].Enemies)
        /\ \E i \in 1..Len(Dungeons[seed].Enemies) :
             /\ dungeon.Enemies[i].id = Dungeons[seed].Enemies[i].id
             /\ <<dungeon.Enemies[i].X, dungeon.Enemies[i].Y>>
                  # <<Dungeons[seed].Enemies[i].X, Dungeons[seed].Enemies[i].Y>>

(***************************************************************************)
(* C18.  A move towards a tile holding a living enemy never changes the    *)
(* player's position, whether the enemy survives or is killed, and the     *)
(* destination tile's effects and item pickup are not triggered: the grid, *)
(* the items and the inventory stay as they were and no tile or pickup     *)
(* message is printed.                                                     *)
(***************************************************************************)
TileMessages ==
    {"treasure", "trap", "trapdeath", "door", "stairs", "collectgold", "pickup"}

C18_AttackKeepsPosition ==
    [][Attacks =>
         /\ player'.X = player.X
         /\ player'.Y = player.Y
         /\ player'.Inventory = player.Inventory
         /\ dungeon'.Grid = dungeon.Grid
         /\ dungeon'.Items = dungeon.Items
         /\ out' \cap TileMessages = {}]_vars

(* The player has attacked an enemy that survives where the player aimed,  *)
(* on a tile that is not plain floor.                                      *)
C18_AttackedOnSpecialTile ==
    /\ input \in MoveTokens
    /\ {"attack", "counter"} \subseteq out
    /\ LET x == player.X + MoveStep(input)[1]
           y == player.Y + MoveStep(input)[2]
       IN /\ GetEnemyAt(dungeon, x, y) # 0
          /\ GetTileAt(dungeon, x, y) # Floor

(***************************************************************************)
(* C19.  In the enemy pass an enemy takes its destination only if that is  *)
(* not the player's tile, is walkable and holds no living enemy; so no     *)
(* living enemy ever stands on the player's tile, whatever moves, attacks, *)
(* rests, descents and passes came before.                                 *)
(***************************************************************************)
\* The living enemies of d standing at (x, y).
LivingAt(d, x, y) ==
    {i \in 1..Len(d.Enemies) :
        /\ d.Enemies[i].Health > 0
        /\ d.Enemies[i].X = x
        /\ d.Enemies[i].Y = y}

C19_NoEnemyOnThePlayer ==
    /\ [](LivingAt(dungeon, player.X, player.Y) = {})
    /\ [][~NewLevel =>
            \A id \in EnemyIds(dungeon) \cap EnemyIds(dungeon') :
                LET b == EnemyOf(dungeon, id)
                    a == EnemyOf(dungeon', id)
                IN <<a.X, a.Y>> # <<b.X, b.Y>> =>
                      /\ <<a.X, a.Y>> # <<player'.X, player'.Y>>
                      /\ IsWalkable(dungeon', a.X, a.Y)
                      /\ Cardinality(LivingAt(dungeon', a.X, a.Y)) = 1]_vars

(* The player has attacked an enemy that survived; its pursuit step leads  *)
(* onto the player's tile and it has stayed where it was.                  *)
C19_PursuerHeldBack ==
    /\ gameState = StatePlaying
    /\ input \in MoveTokens
    /\ {"attack", "counter"} \subseteq out
    /\ LET x == player.X + MoveStep(input)[1]
           y == player.Y + MoveStep(input)[2]
       IN \E i \in LivingAt(dungeon, x, y) :
             /\ InPursuitRange(dungeon.Enemies[i], player)
             /\ <<x + PursuitStep(dungeon.Enemies[i], player)[1],
                  y + PursuitStep(dungeon.Enemies[i], player)[2]>>
                  = <<player.X, player.Y>>

(***************************************************************************)
(* C20.  The level-up check cascades and terminates: from level L >= 1 and *)
(* experience E >= 0 it ends with experience below 100 times the level;    *)
(* when k levels were gained, experience went down by the sum of the       *)
(* thresholds 100*L, 100*(L+1), ..., 100*(L+k-1), maxHealth went up by     *)
(* 5*k, attack by k, and (for k >= 1) health equals the new maxHealth;     *)
(* when E < 100*L nothing changes.                                         *)
(***************************************************************************)
ChecksLevel == input' = <<"CheckLevelUp">>

\* 100*L + 100*(L+1) + ... + 100*(L+k-1)
RECURSIVE SumOfThresholds(_, _)
SumOfThresholds(L, k) ==
    IF k <= 0 THEN 0 ELSE 100 * L + SumOfThresholds(L + 1, k - 1)

C20_LevelUpCascades ==
    [][ChecksLevel =>
         LET k == player'.Level - player.Level
         IN /\ k >= 0
            /\ player'.Exp >= 0
            /\ player'.Exp < 100 * player'.Level
            /\ player.Exp - player'.Exp = SumOfThresholds(player.Level, k)
            /\ player'.MaxHealth = player.MaxHealth + 5 * k
            /\ player'.Attack = player.Attack + k
            /\ k >= 1 => player'.Health = player'.MaxHealth
            /\ player.Exp < 100 * player.Level => player' = player
            /\ [player' EXCEPT !.Level = player.Level, !.Exp = player.Exp,
                               !.MaxHealth = player.MaxHealth,
                               !.Attack = player.Attack,
                               !.Health = player.Health] = player]_vars

(* One check has gained two levels: the player is two levels above the     *)
(* highest starting level.                                                 *)
C20_TwoLevelsAtOnce ==
    /\ input = <<"CheckLevelUp">>
    /\ "levelup" \in out
    /\ player.Level = MaxLevel + 2
    /\ player.Health = player.MaxHealth

(***************************************************************************)
(* C21.  Every generated dungeon has exactly one StairsDown tile, at the   *)
(* center (X + Width/2, Y + Height/2) of the last room of the room list,   *)
(* and the tile stays StairsDown through every player and enemy action on  *)
(* that level.                                                             *)
(***************************************************************************)
StairsCells(d) ==
    {c \in (0..(d.Width - 1)) \X (0..(d.Height - 1)) : d.Grid[c[2]][c[1]] = StairsDown}

LastRoom(d) == d.Rooms[Len(d.Rooms)]

C21_OneStairsInLastRoom ==
    /\ Len(dungeon.Rooms) > 0
    /\ StairsCells(dungeon) =
         {<<LastRoom(dungeon).X + LastRoom(dungeon).Width \div 2,
            LastRoom(dungeon).Y + LastRoom(dungeon).Height \div 2>>}

(* The player has walked off the stairs and back onto them.                *)
C21_BackOnTheStairs ==
    /\ gameState = StatePlaying
    /\ input \in MoveTokens
    /\ "stairs" \in out
    /\ turns >= 2
    /\ GetTileAt(dungeon, player.X, player.Y) = StairsDown

(***************************************************************************)
(* C22.  Every Treasure tile of a generated dungeon has a Gold-type item   *)
(* with value in 10..99 at its coordinates, and when the player first      *)
(* arrives on the tile the item is collected and its value is added to the *)
(* player's gold, on top of the tile's own 10..29, with nothing appended   *)
(* to the inventory.                                                       *)
(***************************************************************************)
ArrivesOnTreasure == Arrives /\ GetTileAt(dungeon, TargetX, TargetY) = Treasure

C22_TreasureItemAddsItsValue ==
    [][ArrivesOnTreasure =>
         LET ii == GetItemAt(dungeon, TargetX, TargetY)
         IN /\ ii # 0
            /\ dungeon.Items[ii].Type = ItemGold
            /\ dungeon.Items[ii].Value \in 10..99
            /\ dungeon'.Items[ii].Collected
            /\ (player'.Gold - player.Gold - dungeon.Items[ii].Value) \in 10..29
            /\ player'.Inventory = player.Inventory]_vars

(* What the code does on such an arrival: the item is of the Treasure type *)
(* and is marked collected, the gold grows by the tile's 10..29 only, and  *)
(* the inventory stays as it was.                                          *)
C22_TreasureItemOnlyMarked ==
    [][ArrivesOnTreasure =>
         LET ii == GetItemAt(dungeon, TargetX, TargetY)
         IN /\ ii # 0
            /\ dungeon.Items[ii].Type = ItemTreasure
            /\ dungeon.Items[ii].Value \in 10..99
            /\ dungeon'.Items[ii].Collected
            /\ (player'.Gold - player.Gold) \in 10..29
            /\ player'.Inventory = player.Inventory]_vars

(* The player has arrived on a Treasure tile and the item there is marked  *)
(* collected.                                                              *)
C22_TreasureTaken ==
    /\ input \in MoveTokens
    /\ "treasure" \in out
    /\ \E i \in 1..Len(dungeon.Items) :
         /\ dungeon.Items[i].Collected
         /\ dungeon.Items[i].X = player.X
         /\ dungeon.Items[i].Y = player.Y

(***************************************************************************)
(* C23.  At the end of every player action every enemy of the collection   *)
(* has health above 0: an enemy whose health drops to 0 or less in combat  *)
(* is removed in the same action, and exactly that enemy is removed, not   *)
(* another one with equal fields or position; every other enemy stays,     *)
(* with its health as it was.                                              *)
(***************************************************************************)
C23_OnlyTheDeadEnemyGoes ==
    /\ [](\A i \in 1..Len(dungeon.Enemies) : dungeon.Enemies[i].Health > 0)
    /\ [][Attacks =>
            /\ EnemyIds(dungeon') = EnemyIds(dungeon) \ Killed
            /\ Len(dungeon'.Enemies) = Len(dungeon.Enemies) - Cardinality(Killed)
            /\ \A id \in EnemyIds(dungeon') :
                 LET b == EnemyOf(dungeon, id)
                     a == EnemyOf(dungeon', id)
                 IN /\ a.Health = IF id = Attacked.id
                                   THEN b.Health - player.Attack
                                   ELSE b.Health
                    /\ a.Name = b.Name
                    /\ a.Damage = b.Damage]_vars

(* In a dungeon generated without enemies two rests were interrupted and   *)
(* the second newcomer has been killed: the first one is what remains.     *)
C23_SecondNewcomerKilled ==
    /\ input \in MoveTokens
    /\ {"attack", "defeated"} \subseteq out
    /\ \E seed \in Seeds :
         /\ dungeon.Rooms = Dungeons[seed].Rooms
         /\ Len(Dungeons[seed].Enemies) = 0
    /\ Len(dungeon.Enemies) = 1
    /\ dungeon.Enemies[1].id = 1

(***************************************************************************)
(* C24.  In every generated dungeon the StairsDown tile is reachable from  *)
(* the player's start, the center of room 0, by a path of 4-adjacent       *)
(* walkable tiles: the corridors connect consecutive rooms and no Door,    *)
(* Treasure or Trap placed afterwards blocks the path.  The grid is        *)
(* complete when the features are placed; spawning the enemies leaves it   *)
(* as it is.                                                               *)
(***************************************************************************)
Neighbours(c) ==
    {<<c[1] + 1, c[2]>>, <<c[1] - 1, c[2]>>, <<c[1], c[2] + 1>>, <<c[1], c[2] - 1>>}

\* The walkable cells reachable from the cells seen so far, the cells of
\* edge being those seen last.
RECURSIVE Flood(_, _, _)
Flood(d, seen, edge) ==
    Once({c \in UNION {Neighbours(e) : e \in edge} :
             c \notin seen /\ IsWalkable(d, c[1], c[2])},
         LAMBDA new : IF new = {} THEN seen ELSE Flood(d, seen \cup new, new))

StairsReachable(d) ==
    /\ IsWalkable(d, RoomCenterX(d), RoomCenterY(d))
    /\ StairsCells(d) # {}
    /\ StairsCells(d) \subseteq Flood(d, {<<RoomCenterX(d), RoomCenterY(d)>>},
                                      {<<RoomCenterX(d), RoomCenterY(d)>>})

C24_StairsReachable ==
    /\ [](input \in {<<"addFeatures">>, <<"NewDungeon">>} => StairsReachable(dungeon))
    /\ [][input' = <<"NewDungeon">> => dungeon'.Grid = dungeon.Grid]_vars

(* A finished dungeon of three rooms or more with a Door on the grid and   *)
(* the stairs away from the start.                                         *)
C24_StairsBeyondADoor ==
    /\ input = <<"NewDungeon">>
    /\ Len(dungeon.Rooms) >= 3
    /\ GetTileAt(dungeon, player.X, player.Y) # StairsDown
    /\ \E x \in 0..(dungeon.Width - 1), y \in 0..(dungeon.Height - 1) :
         dungeon.Grid[y][x] = Door


\* Two distinct enemies of the collection, both alive, on one tile.
Stacked(d) ==
    \E i, j \in 1..Len(d.Enemies) :
        /\ i < j
        /\ d.Enemies[i].Health > 0
        /\ d.Enemies[j].Health > 0
        /\ d.Enemies[i].X = d.Enemies[j].X
        /\ d.Enemies[i].Y = d.Enemies[j].Y

\* C25: in every state, from the freshly spawned dungeon on, no two distinct
\* living enemies occupy the same tile.  spawnEnemies draws each position
\* without looking at the enemies already placed, so the statement fails in
\* the dungeon NewDungeon returns.
C25_NoTwoEnemiesOnOneTile == ~Stacked(dungeon)

\* A finished dungeon of at least minEnemies enemies, two of them living on
\* one tile.
C25_SpawnedOnOneTile ==
    /\ input = <<"NewDungeon">>
    /\ Len(dungeon.Enemies) >= minEnemies
    /\ Stacked(dungeon)

====
